---- MODULE Spec2Model ----
(***************************************************************************)
(* Model of the CARLA-side co-simulation client (class Game_Loop of        *)
(* CarlaClient/PythonAPI/examples/automatic_control.py) and of the         *)
(* reset_simulation message it publishes.                                  *)
(*                                                                         *)
(* Four threads share one Game_Loop object:                                *)
(*   - the main thread runs game_loop (handshake, world set-up, main loop),*)
(*   - MessageListenThread runs lc.handle() and so the three LCM handlers, *)
(*   - SuspendSimulationThread runs suspend_simulation_control_process,    *)
(*   - TickDealingThread runs tick_process (started by game_loop).         *)
(* The last three are daemon threads: they stop when the process exits,    *)
(* i.e. when game_loop has returned.                                       *)
(***************************************************************************)
EXTENDS Integers, Sequences, FiniteSets, TLC

\* ------------------------------------------------------------------ bounds
\* Frames the coordinator delivers during one run.
MaxFrames == 4
\* ActionResult messages the tick thread publishes during one run.
MaxResults == 2
\* Periods of the liveness monitor during one run.
MaxPeriods == 2

\* --------------------------------------------------------------- constants
\* args.message_waypoints (default of --message-waypoints).
message_waypoints == 3
\* deque(maxlen=600)
waypoints_buffer_maxlen == 600

connect_request_keyword == "connect_request"
connect_response_keyword == "connect_response"
action_package_keyword == "action_package"
action_result_keyword == "action_result"
end_connection_keyword == "end_connection"
suspend_simulation_keyword == "suspend_simulation"
reset_simulation_keyword == "reset_simulation"

\* Python's None as the value of veh_id (a string once bound).
None == "None"

\* Python's None as the value of init_waypoint (a Waypoint once bound).
NoWaypoint == [Location |-> <<>>, Rotation |-> <<>>]

\* No [keyword, msg] in the main loop's hand.
NoEvent == <<>>

\* The topics init_controller subscribes to, in its order.
SubscribedTopics ==
    <<connect_response_keyword, action_package_keyword, end_connection_keyword>>

\* Vehicle ids the coordinator may assign or address.
VehicleIds == {"A", "B"}

\* Distinct routing batches the coordinator may send.
Packages == {1, 2}

\* ---------------------------------------------------------------- messages
\* An LCM Waypoint: Location [x, y, z], Rotation [pitch, yaw, roll].
Waypoint(x, y, z, pitch, yaw, roll) ==
    [Location |-> <<x, y, z>>, Rotation |-> <<pitch, yaw, roll>>]

\* The i-th waypoint of routing batch p, in the coordinator's frame.
RemoteWaypoint(p, i) == Waypoint(10 * p + i, i, 0, 0, 90 * i, 0)

\* The initial pose the coordinator assigns with vehicle id v.
InitPos(v) == IF v = "A" THEN Waypoint(1, 5, 0, 0, 100, 0)
                         ELSE Waypoint(2, 7, 0, 0, 180, 0)

ConnectResponse(v) == [vehicle_id |-> v, init_pos |-> InitPos(v)]

ActionPackage(v, p) ==
    [vehicle_id |-> v,
     waypoints |-> [i \in 1..message_waypoints |-> RemoteWaypoint(p, i)]]

EndConnection(v) == [vehicle_id |-> v]

\* ------------------------------------------------------------------- state
VARIABLES
    veh_id,               \* self.veh_id
    init_waypoint,        \* self.init_waypoint
    init,                 \* self.init
    should_publish,       \* self.should_publish
    action_result_count,  \* self.action_result_count
    waypoints_buffer,     \* self.waypoints_buffer
    msg_queue,            \* self.msg_queue, a sequence of <<keyword, msg>>
    world,                \* self.world is not None
    destroy_calls,        \* number of World.destroy() calls so far
    agent_waypoints,      \* the agent's (local planner's) pending waypoints
    pcMain,               \* where the main thread is in game_loop
    mainEvt,              \* the [keyword, msg] the main loop has dequeued
    tick_dealer,          \* "unstarted" | "send" | "recv" | "dead"
    suspend_dealer,       \* "unstarted" | "alive" | "dead": SuspendSimulationThread
    local_result_count,   \* local of suspend_simulation_control_process
    published,            \* lc.publish calls so far, per topic
    action_res_pack,      \* vehicle_id of the ActionResult last published
    frames,               \* frames lc.handle() has dispatched so far
    periods,              \* monitor periods elapsed so far
    results_at_last_period, \* ActionResults published when the monitor last woke
    should_publish_at_last_period, \* should_publish when the monitor last woke
    bound_end_enqueued,   \* an end connection for the bound id was enqueued
                          \* while the session was bound
    message_listener,     \* "unstarted" | "alive" | "dead": MessageListenThread
    response_dropped,     \* connect_response_handler has returned early
                          \* because self.init was set
    exit_path,            \* how game_loop left its try block: "none" (it has
                          \* not), "end_connection", "quit" or "exception"
    subscriptions,        \* the topics of the lc.subscribe calls so far
    pump_starts,          \* threads running lc.handle() started so far
    _packed_fingerprint,  \* reset_simulation._packed_fingerprint, <<>> for None
    fn_input,             \* argument of a function applied on its own
    fn_output             \* what the function returned or raised

vars == <<veh_id, init_waypoint, init, should_publish, action_result_count,
          waypoints_buffer, msg_queue, world, destroy_calls, agent_waypoints,
          pcMain, mainEvt, tick_dealer, suspend_dealer, local_result_count,
          published, action_res_pack, frames, periods,
          results_at_last_period, should_publish_at_last_period,
          bound_end_enqueued, message_listener, response_dropped, exit_path,
          subscriptions, pump_starts, _packed_fingerprint, fn_input,
          fn_output>>

\* Game_Loop.__init__ has assigned the fields and is about to call
\* init_controller: nothing is subscribed and no thread is started.
Init ==
    /\ veh_id = None
    /\ init_waypoint = NoWaypoint
    /\ init = FALSE
    /\ should_publish = TRUE
    /\ action_result_count = 0
    /\ waypoints_buffer = <<>>
    /\ msg_queue = <<>>
    /\ world = FALSE
    /\ destroy_calls = 0
    /\ agent_waypoints = <<>>
    /\ pcMain = "request"
    /\ mainEvt = NoEvent
    /\ tick_dealer = "unstarted"
    /\ suspend_dealer = "unstarted"
    /\ local_result_count = 0
    /\ published = [connect_request |-> 0, action_result |-> 0,
                    suspend_simulation |-> 0, reset_simulation |-> 0]
    /\ action_res_pack = None
    /\ frames = 0
    /\ periods = 0
    /\ results_at_last_period = 0
    /\ should_publish_at_last_period = TRUE
    /\ bound_end_enqueued = FALSE
    /\ message_listener = "unstarted"
    /\ response_dropped = FALSE
    /\ exit_path = "none"
    /\ subscriptions = <<>>
    /\ pump_starts = 0
    /\ _packed_fingerprint = <<>>
    /\ fn_input = [kind |-> "none"]
    /\ fn_output = <<>>

\* lc.publish(topic, ...)
Publish(topic) == [published EXCEPT ![topic] = @ + 1]

\* The process is alive as long as game_loop has not returned; the daemon
\* threads run only that long.
ProcessRunning == pcMain # "done"


\* ------------------------------------------------------------- transforms
\* transform_waypoint without the yaw offset (what transform_to_lcm_waypoint
\* does to a rotation).
transform_waypoint_NoYawOffset(lcm_waypoint) ==
    [location |-> <<lcm_waypoint.Location[1],
                    -1 * lcm_waypoint.Location[2],
                    lcm_waypoint.Location[3]>>,
     rotation |-> <<lcm_waypoint.Rotation[1],
                    lcm_waypoint.Rotation[2],
                    lcm_waypoint.Rotation[3]>>]

\* Game_Loop.transform_waypoint: LCM waypoint -> carla Transform.
transform_waypoint(lcm_waypoint) ==
    [location |-> <<lcm_waypoint.Location[1],
                    -1 * lcm_waypoint.Location[2],
                    lcm_waypoint.Location[3]>>,
     rotation |-> <<lcm_waypoint.Rotation[1],
                    lcm_waypoint.Rotation[2] - 90,
                    lcm_waypoint.Rotation[3]>>]

\* transform_to_lcm_waypoint with the yaw offset of transform_waypoint undone.
transform_to_lcm_waypoint_WithYawOffset(transform) ==
    [Location |-> <<transform.location[1],
                    -1 * transform.location[2],
                    transform.location[3]>>,
     Rotation |-> <<transform.rotation[1],
                    transform.rotation[2] + 90,
                    transform.rotation[3]>>]

\* Game_Loop.transform_to_lcm_waypoint: carla Transform -> LCM waypoint.
transform_to_lcm_waypoint(transform) ==
    [Location |-> <<transform.location[1],
                    -1 * transform.location[2],
                    transform.location[3]>>,
     Rotation |-> <<transform.rotation[1],
                    transform.rotation[2],
                    transform.rotation[3]>>]

\* An append that lets the deque grow without limit.
DequeAppend_Unbounded(buf, w) == Append(buf, w)

\* deque(maxlen=600).append: a full deque drops its oldest entry.
DequeAppend(buf, w) ==
    IF Len(buf) >= waypoints_buffer_maxlen THEN Append(Tail(buf), w)
                                            ELSE Append(buf, w)

\* The agent's local planner (agents/navigation, not part of the sources).
AgentDropWaypointBuffer(q) == <<>>
AgentAddWaypoint(q, w) == Append(q, w)

\* ------------------------------------------- reset_simulation (LCM codec)
\* Byte strings are sequences of 0..255, Python strings are sequences of
\* code points.  A 64-bit value is held as its eight bytes, most significant
\* first, which is also what struct.pack(">Q", .) yields.

\* data[:n] and data[n:] of a bytes object; BytesIO.read(n) returns the
\* first and leaves the second.
Take(data, n) == SubSeq(data, 1, IF n < Len(data) THEN n ELSE Len(data))
Drop(data, n) == SubSeq(data, n + 1, Len(data))

\* (h << 1) & 0xffffffffffffffff of the eight bytes h.
ShiftLeft1(h) ==
    [i \in 1..8 |-> ((h[i] * 2) % 256) + (IF i < 8 THEN h[i + 1] \div 128 ELSE 0)]

\* h >> 63 of the eight bytes h.
ShiftRight63(h) == [i \in 1..8 |-> IF i = 8 THEN h[1] \div 128 ELSE 0]

\* (a + b) & 0xffffffffffffffff for eight-byte a and b with b < 256.
RECURSIVE AddCarry(_, _, _)
AddCarry(a, i, carry) ==
    IF i = 0 THEN a
    ELSE AddCarry([a EXCEPT ![i] = (a[i] + carry) % 256], i - 1,
                  (a[i] + carry) \div 256)
Add64(a, b) == AddCarry(a, 8, b[8])

\* The hash shifted left by one bit, the bit shifted out not added back.
_get_hash_recursive_ShiftOnly ==
    LET tmphash == <<215, 113, 37, 64, 20, 87, 19, 93>>
    IN  ShiftLeft1(tmphash)

\* reset_simulation._get_hash_recursive([]): 0xd77125401457135d rotated
\* left by one bit.
_get_hash_recursive ==
    LET tmphash == <<215, 113, 37, 64, 20, 87, 19, 93>>
    IN  Add64(ShiftLeft1(tmphash), ShiftRight63(tmphash))

\* What reset_simulation._get_packed_fingerprint() returns: the packed hash,
\* computed when the class attribute _packed_fingerprint is still None and
\* taken from the attribute otherwise.  A call leaves the attribute at the
\* value it returns.
_get_packed_fingerprint ==
    IF _packed_fingerprint = <<>> THEN _get_hash_recursive
                                  ELSE _packed_fingerprint

\* The four bytes of n, least significant first.
pack_I_LittleEndian(n) ==
    <<n % 256, (n \div 256) % 256, (n \div 65536) % 256,
      (n \div 16777216) % 256>>

\* struct.pack('>I', n) for 0 <= n < 2^31.
pack_I(n) ==
    <<(n \div 16777216) % 256, (n \div 65536) % 256, (n \div 256) % 256,
      n % 256>>

\* struct.unpack('>I', b)[0] of four bytes b.  A value from 2^31 on is held
\* as 2^31 - 1: the value is only ever a number of bytes to read, and no
\* buffer is that long.
unpack_I(b) ==
    IF b[1] >= 128 THEN 2147483647
    ELSE (b[1] * 16777216) + (b[2] * 65536) + (b[3] * 256) + b[4]

\* One code point as UTF-8 (code points below 0x10000 that are no
\* surrogates).
utf8_encode_char(c) ==
    IF c < 128 THEN <<c>>
    ELSE IF c < 2048 THEN <<192 + (c \div 64), 128 + (c % 64)>>
    ELSE <<224 + (c \div 4096), 128 + ((c \div 64) % 64), 128 + (c % 64)>>

\* str.encode('utf-8')
RECURSIVE utf8_encode(_)
utf8_encode(str) ==
    IF str = <<>> THEN <<>>
    ELSE utf8_encode_char(Head(str)) \o utf8_encode(Tail(str))

\* How many continuation bytes the lead byte b1 announces; -1 if b1 cannot
\* start a character.
Continuations(b1) ==
    IF b1 < 128 THEN 0
    ELSE IF b1 \in 194..223 THEN 1
    ELSE IF b1 \in 224..239 THEN 2
    ELSE IF b1 \in 240..244 THEN 3
    ELSE -1

\* The values the i-th byte of a character led by b1 may take.
ContinuationRange(b1, i) ==
    IF i > 2 THEN 128..191
    ELSE (IF b1 = 224 THEN 160 ELSE IF b1 = 240 THEN 144 ELSE 128)
         .. (IF b1 = 237 THEN 159 ELSE IF b1 = 244 THEN 143 ELSE 191)

\* How many of the need continuation bytes after b[1] are there and valid.
RECURSIVE ValidContinuations(_, _, _)
ValidContinuations(b, need, k) ==
    IF k < need /\ k + 2 <= Len(b) /\ b[k + 2] \in ContinuationRange(b[1], k + 2)
    THEN ValidContinuations(b, need, k + 1)
    ELSE k

\* The code point of the complete character b[1..n+1].
RECURSIVE CodePoint(_, _, _)
CodePoint(b, n, acc) ==
    IF n = 0 THEN acc
    ELSE CodePoint(Tail(b), n - 1, (acc * 64) + (b[2] - 128))

\* bytes.decode('utf-8', 'replace'): every maximal ill-formed run becomes
\* U+FFFD.
RECURSIVE utf8_decode_replace(_)
utf8_decode_replace(b) ==
    IF b = <<>> THEN <<>>
    ELSE LET need == Continuations(b[1])
             good == ValidContinuations(b, need, 0)
             lead == IF need = 1 THEN b[1] - 192
                     ELSE IF need = 2 THEN b[1] - 224
                     ELSE b[1] - 240
         IN  IF need = 0 THEN <<b[1]>> \o utf8_decode_replace(Tail(b))
             ELSE IF need = -1 THEN <<65533>> \o utf8_decode_replace(Tail(b))
             ELSE IF good = need
                  THEN <<CodePoint(b, need, lead)>>
                       \o utf8_decode_replace(Drop(b, need + 1))
             ELSE <<65533>> \o utf8_decode_replace(Drop(b, good + 1))

\* _encode_one without the terminating NUL byte.
_encode_one_NoTerminator(vehicle_id) ==
    LET vehicle_id_encoded == utf8_encode(vehicle_id)
    IN  pack_I(Len(vehicle_id_encoded) + 1) \o vehicle_id_encoded

\* reset_simulation._encode_one: what it writes to buf.
_encode_one(vehicle_id) ==
    LET vehicle_id_encoded == utf8_encode(vehicle_id)
    IN  pack_I(Len(vehicle_id_encoded) + 1) \o vehicle_id_encoded \o <<0>>

\* reset_simulation.encode
encode(m) == _get_packed_fingerprint \o _encode_one(m.vehicle_id)

\* What a decode call ends with: a message, or the exception it raised.
Returned(vehicle_id) == [raised |-> "nothing", vehicle_id |-> vehicle_id]
Raised(exception) == [raised |-> exception, vehicle_id |-> <<>>]

\* reset_simulation._decode_one.  struct.unpack raises struct.error when
\* buf.read(4) gives fewer than four bytes; buf.read(n) gives what is left
\* when fewer than n bytes are left.
_decode_one(buf) ==
    IF Len(Take(buf, 4)) < 4 THEN Raised("struct.error")
    ELSE LET vehicle_id_len == unpack_I(Take(buf, 4))
             read == Take(Drop(buf, 4), vehicle_id_len)
         IN  Returned(utf8_decode_replace(Take(read, Len(read) - 1)))

\* decode without the comparison of the first eight bytes.
decode_NoFingerprintCheck(data) == _decode_one(Drop(data, 8))

\* reset_simulation.decode
decode(data) ==
    IF Take(data, 8) # _get_packed_fingerprint
    THEN Raised("ValueError: Decode error")
    ELSE _decode_one(Drop(data, 8))

\* connect_response_handler without the test of self.init.
connect_response_handler_NoFilter(msg) ==
    /\ ProcessRunning
    /\ message_listener = "alive"
    /\ frames < MaxFrames
    /\ frames' = frames + 1
    /\ msg_queue' = Append(msg_queue, <<connect_response_keyword, msg>>)
    /\ response_dropped' = (response_dropped \/ init)
    /\ UNCHANGED <<veh_id, init_waypoint, init, should_publish,
                   action_result_count, waypoints_buffer, world, destroy_calls,
                   agent_waypoints, pcMain, mainEvt, tick_dealer,
                   suspend_dealer, local_result_count, published,
                   action_res_pack, periods, results_at_last_period,
                   should_publish_at_last_period, bound_end_enqueued,
                   message_listener, exit_path, subscriptions, pump_starts,
                   _packed_fingerprint, fn_input, fn_output>>

\* --------------------------------------------- main thread: construction
\* init_controller registering two topics only.
init_controller_subscribe_NoEndConnection ==
    /\ subscriptions = <<>>
    /\ pump_starts = 0
    /\ subscriptions' = <<connect_response_keyword, action_package_keyword>>
    /\ UNCHANGED <<veh_id, init_waypoint, init, should_publish,
                   action_result_count, waypoints_buffer, msg_queue, world,
                   destroy_calls, agent_waypoints, pcMain, mainEvt,
                   tick_dealer, suspend_dealer, local_result_count, published,
                   action_res_pack, frames, periods, results_at_last_period,
                   should_publish_at_last_period, bound_end_enqueued,
                   message_listener, response_dropped, exit_path, pump_starts,
                   _packed_fingerprint, fn_input, fn_output>>

\* init_controller, the three lc.subscribe calls.
init_controller_subscribe ==
    /\ subscriptions = <<>>
    /\ pump_starts = 0
    /\ subscriptions' = SubscribedTopics
    /\ UNCHANGED <<veh_id, init_waypoint, init, should_publish,
                   action_result_count, waypoints_buffer, msg_queue, world,
                   destroy_calls, agent_waypoints, pcMain, mainEvt,
                   tick_dealer, suspend_dealer, local_result_count, published,
                   action_res_pack, frames, periods, results_at_last_period,
                   should_publish_at_last_period, bound_end_enqueued,
                   message_listener, response_dropped, exit_path, pump_starts,
                   _packed_fingerprint, fn_input, fn_output>>

\* init_controller calling self.tick_dealer.start() as well.
init_controller_start_StartsTick ==
    /\ subscriptions # <<>>
    /\ pump_starts = 0
    /\ pump_starts' = pump_starts + 1
    /\ message_listener' = "alive"
    /\ suspend_dealer' = "alive"
    /\ tick_dealer' = "send"
    /\ UNCHANGED <<veh_id, init_waypoint, init, should_publish,
                   action_result_count, waypoints_buffer, msg_queue, world,
                   destroy_calls, agent_waypoints, pcMain, mainEvt,
                   local_result_count, published, action_res_pack, frames,
                   periods, results_at_last_period,
                   should_publish_at_last_period, bound_end_enqueued,
                   response_dropped, exit_path, subscriptions,
                   _packed_fingerprint, fn_input, fn_output>>

\* init_controller, the threads: MessageListenThread and
\* SuspendSimulationThread are started, TickDealingThread is only created.
init_controller_start ==
    /\ subscriptions # <<>>
    /\ pump_starts = 0
    /\ pump_starts' = pump_starts + 1
    /\ message_listener' = "alive"
    /\ suspend_dealer' = "alive"
    /\ UNCHANGED <<veh_id, init_waypoint, init, should_publish,
                   action_result_count, waypoints_buffer, msg_queue, world,
                   destroy_calls, agent_waypoints, pcMain, mainEvt,
                   tick_dealer, local_result_count, published, action_res_pack,
                   frames, periods, results_at_last_period,
                   should_publish_at_last_period, bound_end_enqueued,
                   response_dropped, exit_path, subscriptions,
                   _packed_fingerprint, fn_input, fn_output>>

\* ------------------------------------------- MessageListenThread: handlers
\* connect_response_handler: enqueue unless self.init is already set.
connect_response_handler(msg) ==
    /\ ProcessRunning
    /\ message_listener = "alive"
    /\ frames < MaxFrames
    /\ frames' = frames + 1
    /\ msg_queue' = IF init THEN msg_queue
                    ELSE Append(msg_queue, <<connect_response_keyword, msg>>)
    /\ response_dropped' = (response_dropped \/ init)
    /\ UNCHANGED <<veh_id, init_waypoint, init, should_publish,
                   action_result_count, waypoints_buffer, world, destroy_calls,
                   agent_waypoints, pcMain, mainEvt, tick_dealer,
                   suspend_dealer, local_result_count, published,
                   action_res_pack, periods, results_at_last_period,
                   should_publish_at_last_period, bound_end_enqueued,
                   message_listener, exit_path, subscriptions, pump_starts,
                   _packed_fingerprint, fn_input, fn_output>>

\* action_package_handler: enqueue only a package addressed to self.veh_id.
action_package_handler(msg) ==
    /\ ProcessRunning
    /\ message_listener = "alive"
    /\ frames < MaxFrames
    /\ frames' = frames + 1
    /\ msg_queue' = IF msg.vehicle_id # veh_id THEN msg_queue
                    ELSE Append(msg_queue, <<action_package_keyword, msg>>)
    /\ UNCHANGED <<veh_id, init_waypoint, init, should_publish,
                   action_result_count, waypoints_buffer, world, destroy_calls,
                   agent_waypoints, pcMain, mainEvt, tick_dealer,
                   suspend_dealer, local_result_count, published,
                   action_res_pack, periods, results_at_last_period,
                   should_publish_at_last_period, bound_end_enqueued,
                   message_listener, response_dropped, exit_path,
                   subscriptions, pump_starts, _packed_fingerprint, fn_input,
                   fn_output>>

\* end_connection_dealer ending the publications itself.
end_connection_dealer_ClearsShouldPublish(msg) ==
    /\ ProcessRunning
    /\ message_listener = "alive"
    /\ frames < MaxFrames
    /\ frames' = frames + 1
    /\ msg_queue' = Append(msg_queue, <<end_connection_keyword, msg>>)
    /\ should_publish' = FALSE
    /\ bound_end_enqueued' =
           (bound_end_enqueued \/ (init /\ msg.vehicle_id = veh_id))
    /\ UNCHANGED <<veh_id, init_waypoint, init, action_result_count,
                   waypoints_buffer, world, destroy_calls, agent_waypoints,
                   pcMain, mainEvt, tick_dealer, suspend_dealer,
                   local_result_count, published, action_res_pack, periods,
                   results_at_last_period, should_publish_at_last_period,
                   message_listener, response_dropped, exit_path,
                   subscriptions, pump_starts, _packed_fingerprint, fn_input,
                   fn_output>>

\* end_connection_dealer (the LCM handler): enqueue whatever the vehicle id.
end_connection_dealer(msg) ==
    /\ ProcessRunning
    /\ message_listener = "alive"
    /\ frames < MaxFrames
    /\ frames' = frames + 1
    /\ msg_queue' = Append(msg_queue, <<end_connection_keyword, msg>>)
    /\ bound_end_enqueued' =
           (bound_end_enqueued \/ (init /\ msg.vehicle_id = veh_id))
    /\ UNCHANGED <<veh_id, init_waypoint, init, should_publish,
                   action_result_count, waypoints_buffer, world, destroy_calls,
                   agent_waypoints, pcMain, mainEvt, tick_dealer,
                   suspend_dealer, local_result_count, published,
                   action_res_pack, periods, results_at_last_period,
                   should_publish_at_last_period, message_listener,
                   response_dropped, exit_path, subscriptions, pump_starts,
                   _packed_fingerprint, fn_input, fn_output>>

\* A frame on a subscribed topic that does not decode: the handler's first
\* statement, <type>.decode(data), raises ValueError.  Nothing catches it in
\* the handler or around lc.handle(), so it ends MessageListenThread.
handler_decode_error ==
    /\ ProcessRunning
    /\ message_listener = "alive"
    /\ frames < MaxFrames
    /\ frames' = frames + 1
    /\ message_listener' = "dead"
    /\ UNCHANGED <<veh_id, init_waypoint, init, should_publish,
                   action_result_count, waypoints_buffer, msg_queue, world,
                   destroy_calls, agent_waypoints, pcMain, mainEvt,
                   tick_dealer, suspend_dealer, local_result_count, published,
                   action_res_pack, periods, results_at_last_period,
                   should_publish_at_last_period, bound_end_enqueued,
                   response_dropped, exit_path, subscriptions, pump_starts,
                   _packed_fingerprint, fn_input, fn_output>>

\* message_listen_process: lc.handle() runs the handler of the frame's topic.
message_listen_process ==
    \/ \E v \in VehicleIds : connect_response_handler(ConnectResponse(v))
    \/ \E v \in VehicleIds, p \in Packages :
           action_package_handler(ActionPackage(v, p))
    \/ \E v \in VehicleIds : end_connection_dealer(EndConnection(v))
    \/ handler_decode_error

\* ------------------------------------------------- main thread: game_loop
\* connect_response_dealer: bind the session to the message's vehicle id.
connect_response_dealer_InitNotSet(msg) ==
    /\ veh_id' = msg.vehicle_id
    /\ init_waypoint' = msg.init_pos
    /\ init' = FALSE

connect_response_dealer(msg) ==
    /\ veh_id' = msg.vehicle_id
    /\ init_waypoint' = msg.init_pos
    /\ init' = TRUE

\* game_loop entering the handshake wait without publishing.
PublishConnectRequest_Skipped ==
    /\ pcMain = "request"
    /\ pump_starts = 1
    /\ pcMain' = "handshake"
    /\ UNCHANGED <<veh_id, init_waypoint, init, should_publish,
                   action_result_count, waypoints_buffer, msg_queue, world,
                   destroy_calls, agent_waypoints, mainEvt, tick_dealer,
                   suspend_dealer, local_result_count, published,
                   action_res_pack, frames, periods, results_at_last_period,
                   should_publish_at_last_period, bound_end_enqueued,
                   message_listener, response_dropped, exit_path,
                   subscriptions, pump_starts, _packed_fingerprint, fn_input,
                   fn_output>>

\* game_loop: publish the ConnectRequest, then wait for the response.
PublishConnectRequest ==
    /\ pcMain = "request"
    /\ pump_starts = 1
    /\ published' = Publish(connect_request_keyword)
    /\ pcMain' = "handshake"
    /\ UNCHANGED <<veh_id, init_waypoint, init, should_publish,
                   action_result_count, waypoints_buffer, msg_queue, world,
                   destroy_calls, agent_waypoints, mainEvt, tick_dealer,
                   suspend_dealer, local_result_count, action_res_pack, frames,
                   periods, results_at_last_period,
                   should_publish_at_last_period, bound_end_enqueued,
                   message_listener, response_dropped, exit_path,
                   subscriptions, pump_starts, _packed_fingerprint, fn_input,
                   fn_output>>

\* The handshake loop leaving its wait on an event of any topic.
HandshakeWait_AnyEvent ==
    /\ pcMain = "handshake"
    /\ msg_queue # <<>>
    /\ msg_queue' = Tail(msg_queue)
    /\ IF Head(msg_queue)[1] = connect_response_keyword
         THEN /\ connect_response_dealer(Head(msg_queue)[2])
              /\ pcMain' = "setup"
         ELSE /\ pcMain' = "setup"
              /\ UNCHANGED <<veh_id, init_waypoint, init>>
    /\ UNCHANGED <<should_publish, action_result_count, waypoints_buffer,
                   world, destroy_calls, agent_waypoints, mainEvt, tick_dealer,
                   suspend_dealer, local_result_count, published,
                   action_res_pack, frames, periods, results_at_last_period,
                   should_publish_at_last_period, bound_end_enqueued,
                   message_listener, response_dropped, exit_path,
                   subscriptions, pump_starts, _packed_fingerprint, fn_input,
                   fn_output>>

\* game_loop, the handshake loop: one msg_queue.get that returned an event.
\* A connect response binds the session and ends the wait; an event of any
\* other topic is dropped.  (queue.Empty: the loop just tries again.)
HandshakeWait ==
    /\ pcMain = "handshake"
    /\ msg_queue # <<>>
    /\ msg_queue' = Tail(msg_queue)
    /\ IF Head(msg_queue)[1] = connect_response_keyword
         THEN /\ connect_response_dealer(Head(msg_queue)[2])
              /\ pcMain' = "setup"
         ELSE UNCHANGED <<veh_id, init_waypoint, init, pcMain>>
    /\ UNCHANGED <<should_publish, action_result_count, waypoints_buffer,
                   world, destroy_calls, agent_waypoints, mainEvt, tick_dealer,
                   suspend_dealer, local_result_count, published,
                   action_res_pack, frames, periods, results_at_last_period,
                   should_publish_at_last_period, bound_end_enqueued,
                   message_listener, response_dropped, exit_path,
                   subscriptions, pump_starts, _packed_fingerprint, fn_input,
                   fn_output>>

\* game_loop between the handshake and the main loop: the world and the agent
\* are created, the agent's waypoints are dropped, the tick thread is started.
WorldSetup ==
    /\ pcMain = "setup"
    /\ world' = TRUE
    /\ agent_waypoints' = AgentDropWaypointBuffer(agent_waypoints)
    /\ tick_dealer' = "send"
    /\ pcMain' = "loop"
    /\ UNCHANGED <<veh_id, init_waypoint, init, should_publish,
                   action_result_count, waypoints_buffer, msg_queue,
                   destroy_calls, mainEvt, suspend_dealer, local_result_count,
                   published, action_res_pack, frames, periods,
                   results_at_last_period, should_publish_at_last_period,
                   bound_end_enqueued, message_listener, response_dropped,
                   exit_path, subscriptions, pump_starts, _packed_fingerprint,
                   fn_input, fn_output>>

\* Main loop: controller.parse_events saw a quit event; game_loop returns.
ParseEventsQuit ==
    /\ pcMain = "loop"
    /\ pcMain' = "finally"
    /\ exit_path' = "quit"
    /\ UNCHANGED <<veh_id, init_waypoint, init, should_publish,
                   action_result_count, waypoints_buffer, msg_queue, world,
                   destroy_calls, agent_waypoints, mainEvt, tick_dealer,
                   suspend_dealer, local_result_count, published,
                   action_res_pack, frames, periods, results_at_last_period,
                   should_publish_at_last_period, bound_end_enqueued,
                   message_listener, response_dropped, subscriptions,
                   pump_starts, _packed_fingerprint, fn_input, fn_output>>

\* A statement of the try block raises after the handshake: while the world
\* and the agent are set up (before or after self.world is assigned, the
\* tick thread not yet started), or anywhere in an iteration of the main
\* loop.  Control passes to the finally clause.
GameLoopRaises ==
    /\ \/ /\ pcMain = "setup"
          /\ world' \in BOOLEAN
       \/ /\ pcMain \in {"loop", "dispatch", "step"}
          /\ UNCHANGED world
    /\ pcMain' = "finally"
    /\ mainEvt' = NoEvent
    /\ exit_path' = "exception"
    /\ UNCHANGED <<veh_id, init_waypoint, init, should_publish,
                   action_result_count, waypoints_buffer, msg_queue,
                   destroy_calls, agent_waypoints, tick_dealer, suspend_dealer,
                   local_result_count, published, action_res_pack, frames,
                   periods, results_at_last_period,
                   should_publish_at_last_period, bound_end_enqueued,
                   message_listener, response_dropped, subscriptions,
                   pump_starts, _packed_fingerprint, fn_input, fn_output>>

\* Main loop: msg_queue.get(timeout=0.01), an event or queue.Empty.
MainLoopGet ==
    /\ pcMain = "loop"
    /\ IF msg_queue # <<>>
         THEN /\ mainEvt' = Head(msg_queue)
              /\ msg_queue' = Tail(msg_queue)
              /\ pcMain' = "dispatch"
         ELSE /\ pcMain' = "step"
              /\ UNCHANGED <<mainEvt, msg_queue>>
    /\ UNCHANGED <<veh_id, init_waypoint, init, should_publish,
                   action_result_count, waypoints_buffer, world, destroy_calls,
                   agent_waypoints, tick_dealer, suspend_dealer,
                   local_result_count, published, action_res_pack, frames,
                   periods, results_at_last_period,
                   should_publish_at_last_period, bound_end_enqueued,
                   message_listener, response_dropped, exit_path,
                   subscriptions, pump_starts, _packed_fingerprint, fn_input,
                   fn_output>>

\* The test of the vehicle id left out: any end connection ends the session.
EndConnectionAccepted_AnyVehicle(msg) == TRUE

\* The main loop's test of an end-connection message against the session.
EndConnectionAccepted(msg) == ~(msg.vehicle_id # veh_id)

\* Main loop: the if/elif chain on the keyword of the dequeued event.
\*   action package:   only printed (its handling is commented out here);
\*   connect response: connect_response_dealer;
\*   end connection:   for this vehicle, clear should_publish (the world's
\*                     actors are destroyed next, then game_loop returns);
\*                     for another vehicle, only printed.
MainLoopDispatch ==
    /\ pcMain = "dispatch"
    /\ mainEvt' = NoEvent
    /\ IF mainEvt[1] = action_package_keyword
         THEN /\ pcMain' = "step"
              /\ UNCHANGED <<veh_id, init_waypoint, init, should_publish,
                             destroy_calls>>
       ELSE IF mainEvt[1] = connect_response_keyword
         THEN /\ connect_response_dealer(mainEvt[2])
              /\ pcMain' = "step"
              /\ UNCHANGED <<should_publish, destroy_calls>>
       ELSE IF mainEvt[1] = end_connection_keyword
                  /\ EndConnectionAccepted(mainEvt[2])
         THEN /\ should_publish' = FALSE
              /\ pcMain' = "destroy"
              /\ UNCHANGED <<veh_id, init_waypoint, init, destroy_calls>>
         ELSE /\ pcMain' = "step"
              /\ UNCHANGED <<veh_id, init_waypoint, init, should_publish,
                             destroy_calls>>
    /\ UNCHANGED <<action_result_count, waypoints_buffer, msg_queue, world,
                   agent_waypoints, tick_dealer, suspend_dealer,
                   local_result_count, published, action_res_pack, frames,
                   periods, results_at_last_period,
                   should_publish_at_last_period, bound_end_enqueued,
                   message_listener, response_dropped, exit_path,
                   subscriptions, pump_starts, _packed_fingerprint, fn_input,
                   fn_output>>

\* Main loop, end connection accepted, after should_publish was cleared:
\* destroy the world's actors (self.world is not None) and return.
EndConnectionDestroy ==
    /\ pcMain = "destroy"
    /\ destroy_calls' = IF world THEN destroy_calls + 1 ELSE destroy_calls
    /\ pcMain' = "finally"
    /\ exit_path' = "end_connection"
    /\ UNCHANGED <<veh_id, init_waypoint, init, should_publish,
                   action_result_count, waypoints_buffer, msg_queue, world,
                   agent_waypoints, mainEvt, tick_dealer, suspend_dealer,
                   local_result_count, published, action_res_pack, frames,
                   periods, results_at_last_period,
                   should_publish_at_last_period, bound_end_enqueued,
                   message_listener, response_dropped, subscriptions,
                   pump_starts, _packed_fingerprint, fn_input, fn_output>>

\* Main loop: control = self.agent.run_step().  The planner may have reached
\* its next waypoint, which it then removes from its queue.
AgentRunStep ==
    /\ pcMain = "step"
    /\ pcMain' = "loop"
    /\ \/ UNCHANGED agent_waypoints
       \/ /\ agent_waypoints # <<>>
          /\ agent_waypoints' = Tail(agent_waypoints)
    /\ UNCHANGED <<veh_id, init_waypoint, init, should_publish,
                   action_result_count, waypoints_buffer, msg_queue, world,
                   destroy_calls, mainEvt, tick_dealer, suspend_dealer,
                   local_result_count, published, action_res_pack, frames,
                   periods, results_at_last_period,
                   should_publish_at_last_period, bound_end_enqueued,
                   message_listener, response_dropped, exit_path,
                   subscriptions, pump_starts, _packed_fingerprint, fn_input,
                   fn_output>>

\* The finally clause without the call of World.destroy.
Finally_NoDestroy ==
    /\ pcMain = "finally"
    /\ pcMain' = "done"
    /\ UNCHANGED <<veh_id, init_waypoint, init, should_publish,
                   action_result_count, waypoints_buffer, msg_queue, world,
                   destroy_calls, agent_waypoints, mainEvt, tick_dealer,
                   suspend_dealer, local_result_count, published,
                   action_res_pack, frames, periods, results_at_last_period,
                   should_publish_at_last_period, bound_end_enqueued,
                   message_listener, response_dropped, exit_path,
                   subscriptions, pump_starts, _packed_fingerprint, fn_input,
                   fn_output>>

\* game_loop's finally clause: destroy the world's actors (if a world was
\* created) and quit pygame; game_loop has then returned.
Finally ==
    /\ pcMain = "finally"
    /\ destroy_calls' = IF world THEN destroy_calls + 1 ELSE destroy_calls
    /\ pcMain' = "done"
    /\ UNCHANGED <<veh_id, init_waypoint, init, should_publish,
                   action_result_count, waypoints_buffer, msg_queue, world,
                   agent_waypoints, mainEvt, tick_dealer, suspend_dealer,
                   local_result_count, published, action_res_pack, frames,
                   periods, results_at_last_period,
                   should_publish_at_last_period, bound_end_enqueued,
                   message_listener, response_dropped, exit_path,
                   subscriptions, pump_starts, _packed_fingerprint, fn_input,
                   fn_output>>

\* send_info_process publishing only while should_publish is set.
send_info_process_ChecksShouldPublish ==
    /\ ProcessRunning
    /\ tick_dealer = "send"
    /\ published.action_result < MaxResults
    /\ \/ /\ published' = IF should_publish THEN Publish(action_result_keyword)
                                           ELSE published
          /\ action_res_pack' = IF should_publish THEN veh_id
                                                 ELSE action_res_pack
          /\ tick_dealer' = "recv"
       \/ /\ destroy_calls > 0
          /\ tick_dealer' = "dead"
          /\ UNCHANGED <<published, action_res_pack>>
    /\ UNCHANGED <<veh_id, init_waypoint, init, should_publish,
                   action_result_count, waypoints_buffer, msg_queue, world,
                   destroy_calls, agent_waypoints, pcMain, mainEvt,
                   suspend_dealer, local_result_count, frames, periods,
                   results_at_last_period, should_publish_at_last_period,
                   bound_end_enqueued, message_listener, response_dropped,
                   exit_path, subscriptions, pump_starts, _packed_fingerprint,
                   fn_input, fn_output>>

\* send_info_process incrementing action_result_count with each publication.
send_info_process_CountsResults ==
    /\ ProcessRunning
    /\ tick_dealer = "send"
    /\ published.action_result < MaxResults
    /\ \/ /\ published' = Publish(action_result_keyword)
          /\ action_res_pack' = veh_id
          /\ tick_dealer' = "recv"
          /\ action_result_count' = action_result_count + 1
       \/ /\ destroy_calls > 0
          /\ tick_dealer' = "dead"
          /\ UNCHANGED <<published, action_res_pack, action_result_count>>
    /\ UNCHANGED <<veh_id, init_waypoint, init, should_publish,
                   waypoints_buffer, msg_queue, world, destroy_calls,
                   agent_waypoints, pcMain, mainEvt, suspend_dealer,
                   local_result_count, frames, periods, results_at_last_period,
                   should_publish_at_last_period, bound_end_enqueued,
                   message_listener, response_dropped, exit_path,
                   subscriptions, pump_starts, _packed_fingerprint, fn_input,
                   fn_output>>

\* ---------------------------------------- TickDealingThread: tick_process
\* send_info_process: publish one ActionResult built from the player's
\* velocity and transform, with vehicle_id = self.veh_id.  Neither is
\* should_publish read nor action_result_count written.  Once World.destroy()
\* has destroyed the player, reading it either still answers or raises, which
\* ends the thread.
send_info_process ==
    /\ ProcessRunning
    /\ tick_dealer = "send"
    /\ published.action_result < MaxResults
    /\ \/ /\ published' = Publish(action_result_keyword)
          /\ action_res_pack' = veh_id
          /\ tick_dealer' = "recv"
       \/ /\ destroy_calls > 0
          /\ tick_dealer' = "dead"
          /\ UNCHANGED <<published, action_res_pack>>
    /\ UNCHANGED <<veh_id, init_waypoint, init, should_publish,
                   action_result_count, waypoints_buffer, msg_queue, world,
                   destroy_calls, agent_waypoints, pcMain, mainEvt,
                   suspend_dealer, local_result_count, frames, periods,
                   results_at_last_period, should_publish_at_last_period,
                   bound_end_enqueued, message_listener, response_dropped,
                   exit_path, subscriptions, pump_starts, _packed_fingerprint,
                   fn_input, fn_output>>

\* action_package_dealer's loop: append the transformed waypoints i..N.
RECURSIVE AppendWaypoints(_, _, _)
AppendWaypoints(buf, waypoints, i) ==
    IF i > message_waypoints THEN buf
    ELSE AppendWaypoints(DequeAppend(buf, transform_waypoint(waypoints[i])),
                         waypoints, i + 1)

\* action_package_dealer: stage the package's waypoints in waypoints_buffer,
\* unless the package is for another vehicle.
action_package_dealer(buf, msg) ==
    IF msg.vehicle_id # veh_id THEN buf
    ELSE AppendWaypoints(buf, msg.waypoints, 1)

\* recv_info_process's loop: add_waypoint for each popped waypoint, in order.
RECURSIVE AddWaypoints(_, _)
AddWaypoints(q, popped) ==
    IF popped = <<>> THEN q
    ELSE AddWaypoints(AgentAddWaypoint(q, Head(popped)), Tail(popped))

\* What range(message_waypoints) popleft calls take from the buffer: all N,
\* or what there is before popleft raises IndexError on the empty deque.
PoppedWaypoints(buf) ==
    SubSeq(buf, 1, IF Len(buf) < message_waypoints THEN Len(buf)
                                                   ELSE message_waypoints)

\* recv_info_process: msg_queue.get(timeout=0.01).  Only an action package is
\* handled: drop the agent's waypoints, stage the package, move N waypoints
\* from the buffer to the agent, clear the buffer.  IndexError is not caught
\* and ends the thread.  An event of another topic is dropped; queue.Empty is
\* passed over.
recv_info_process ==
    /\ ProcessRunning
    /\ tick_dealer = "recv"
    /\ IF msg_queue = <<>>
         THEN /\ tick_dealer' = "send"
              /\ UNCHANGED <<msg_queue, agent_waypoints, waypoints_buffer>>
       ELSE IF Head(msg_queue)[1] = action_package_keyword
         THEN LET staged == action_package_dealer(waypoints_buffer,
                                                  Head(msg_queue)[2])
              IN  /\ msg_queue' = Tail(msg_queue)
                  /\ agent_waypoints' =
                         AddWaypoints(AgentDropWaypointBuffer(agent_waypoints),
                                      PoppedWaypoints(staged))
                  /\ waypoints_buffer' = <<>>
                  /\ tick_dealer' = IF Len(staged) < message_waypoints
                                      THEN "dead" ELSE "send"
         ELSE /\ msg_queue' = Tail(msg_queue)
              /\ tick_dealer' = "send"
              /\ UNCHANGED <<agent_waypoints, waypoints_buffer>>
    /\ UNCHANGED <<veh_id, init_waypoint, init, should_publish,
                   action_result_count, world, destroy_calls, pcMain, mainEvt,
                   suspend_dealer, local_result_count, published,
                   action_res_pack, frames, periods, results_at_last_period,
                   should_publish_at_last_period, bound_end_enqueued,
                   message_listener, response_dropped, exit_path,
                   subscriptions, pump_starts, _packed_fingerprint, fn_input,
                   fn_output>>

\* -------------- SuspendSimulationThread: suspend_simulation_control_process
\* class World has a player but no attribute named vehicle.
WorldHasVehicle == FALSE

\* reset_simulation._encode_one calls vehicle_id.encode('utf-8'): it raises
\* AttributeError when vehicle_id is None.
CanEncode(vehicle_id) == vehicle_id # None

\* A monitor that publishes a SuspendSimulation where the ResetSimulation
\* is published, should_publish not tested.
suspend_simulation_control_process_Ungated ==
    /\ ProcessRunning
    /\ suspend_dealer = "alive"
    /\ periods < MaxPeriods
    /\ periods' = periods + 1
    /\ results_at_last_period' = published.action_result
    /\ should_publish_at_last_period' = should_publish
    /\ _packed_fingerprint' = IF local_result_count = 0
                                THEN _get_packed_fingerprint
                                ELSE _packed_fingerprint
    /\ IF local_result_count = action_result_count /\ local_result_count # 0
         THEN IF world /\ WorldHasVehicle
                THEN /\ published' = IF should_publish = TRUE
                                       THEN Publish(suspend_simulation_keyword)
                                       ELSE published
                     /\ UNCHANGED <<suspend_dealer, local_result_count>>
                ELSE /\ suspend_dealer' = "dead"
                     /\ UNCHANGED <<published, local_result_count>>
       ELSE IF local_result_count = 0
         THEN IF CanEncode(veh_id)
                THEN /\ published' = Publish(suspend_simulation_keyword)
                     /\ UNCHANGED <<suspend_dealer, local_result_count>>
                ELSE /\ suspend_dealer' = "dead"
                     /\ UNCHANGED <<published, local_result_count>>
         ELSE /\ local_result_count' = action_result_count
              /\ UNCHANGED <<published, suspend_dealer>>
    /\ UNCHANGED <<veh_id, init_waypoint, init, should_publish,
                   action_result_count, waypoints_buffer, msg_queue, world,
                   destroy_calls, agent_waypoints, pcMain, mainEvt,
                   tick_dealer, action_res_pack, frames, bound_end_enqueued,
                   message_listener, response_dropped, exit_path,
                   subscriptions, pump_starts, fn_input, fn_output>>

\* A monitor period that empties msg_queue and does nothing else.
suspend_simulation_control_process_ClearsQueue ==
    /\ ProcessRunning
    /\ suspend_dealer = "alive"
    /\ periods < MaxPeriods
    /\ periods' = periods + 1
    /\ results_at_last_period' = published.action_result
    /\ should_publish_at_last_period' = should_publish
    /\ msg_queue' = <<>>
    /\ UNCHANGED <<veh_id, init_waypoint, init, should_publish,
                   action_result_count, waypoints_buffer, world, destroy_calls,
                   agent_waypoints, pcMain, mainEvt, tick_dealer,
                   suspend_dealer, local_result_count, published,
                   action_res_pack, frames, bound_end_enqueued,
                   message_listener, response_dropped, exit_path,
                   subscriptions, pump_starts, _packed_fingerprint, fn_input,
                   fn_output>>

\* One period of the monitor: after the sleep,
\*   local == count and local != 0: build a SuspendSimulation from
\*       self.world.vehicle and publish it if should_publish;
\*   local == 0: publish a ResetSimulation carrying self.veh_id (encode
\*       writes the fingerprint first, then fails on a vehicle_id of None);
\*   otherwise:  local = count.
\* An exception raised on the way ends the thread.
suspend_simulation_control_process ==
    /\ ProcessRunning
    /\ suspend_dealer = "alive"
    /\ periods < MaxPeriods
    /\ periods' = periods + 1
    /\ results_at_last_period' = published.action_result
    /\ should_publish_at_last_period' = should_publish
    /\ _packed_fingerprint' = IF local_result_count = 0
                                THEN _get_packed_fingerprint
                                ELSE _packed_fingerprint
    /\ IF local_result_count = action_result_count /\ local_result_count # 0
         THEN IF world /\ WorldHasVehicle
                THEN /\ published' = IF should_publish = TRUE
                                       THEN Publish(suspend_simulation_keyword)
                                       ELSE published
                     /\ UNCHANGED <<suspend_dealer, local_result_count>>
                ELSE /\ suspend_dealer' = "dead"
                     /\ UNCHANGED <<published, local_result_count>>
       ELSE IF local_result_count = 0
         THEN IF CanEncode(veh_id)
                THEN /\ published' = Publish(reset_simulation_keyword)
                     /\ UNCHANGED <<suspend_dealer, local_result_count>>
                ELSE /\ suspend_dealer' = "dead"
                     /\ UNCHANGED <<published, local_result_count>>
         ELSE /\ local_result_count' = action_result_count
              /\ UNCHANGED <<published, suspend_dealer>>
    /\ UNCHANGED <<veh_id, init_waypoint, init, should_publish,
                   action_result_count, waypoints_buffer, msg_queue, world,
                   destroy_calls, agent_waypoints, pcMain, mainEvt,
                   tick_dealer, action_res_pack, frames, bound_end_enqueued,
                   message_listener, response_dropped, exit_path,
                   subscriptions, pump_starts, fn_input, fn_output>>

\* ----------------------------------------------------------- specification
MainThread ==
    \/ init_controller_subscribe
    \/ init_controller_start
    \/ PublishConnectRequest
    \/ HandshakeWait
    \/ WorldSetup
    \/ MainLoopGet
    \/ MainLoopDispatch
    \/ EndConnectionDestroy
    \/ AgentRunStep
    \/ Finally

tick_process ==
    \/ send_info_process
    \/ recv_info_process

Next ==
    \/ MainThread
    \/ ParseEventsQuit
    \/ GameLoopRaises
    \/ message_listen_process
    \/ tick_process
    \/ suspend_simulation_control_process

Spec == Init /\ [][Next]_vars

\* The operating system schedules every thread that can run: the main thread,
\* the tick thread and the monitor thread each keep taking their steps.
\* Nothing obliges the coordinator to send a frame or the user to quit.
FairSpec ==
    /\ Spec
    /\ WF_vars(MainThread)
    /\ WF_vars(tick_process)
    /\ WF_vars(suspend_simulation_control_process)

\* ------------------------------------------------ functions on their own
\* transform_waypoint and the reset_simulation codec are pure: each is
\* applied once to an input drawn from the sets below, on a freshly
\* constructed Game_Loop that does nothing else.

\* Longest vehicle_id, in code points.
MaxStrLen == 2
\* Longest run of bytes after the length field of a received buffer.
MaxPayloadLen == 3

\* NUL, "A", U+00E9 (two bytes in UTF-8) and U+20AC (three bytes).
CodePoints == {0, 65, 233, 8364}

\* NUL, "A", the two bytes of U+00E9, and a byte no UTF-8 text contains.
PayloadBytes == {0, 65, 195, 169, 255}

SeqsUpTo(S, n) == UNION {[1..k -> S] : k \in 0..n}

RemoteWaypoints ==
    {Waypoint(x, y, z, pitch, yaw, roll) :
        x \in {0, 1}, y \in {-5, 0, 5}, z \in {0, 2},
        pitch \in {0, 3}, yaw \in {-90, 0, 100}, roll \in {0, 7}}

\* reset_simulation messages with a string vehicle_id.
ResetMessages == {[vehicle_id |-> str] : str \in SeqsUpTo(CodePoints, MaxStrLen)}

\* The first bytes of a received buffer: the fingerprint, a prefix of it,
\* the fingerprint with its first or last byte changed, the hash before its
\* rotation.
Heads ==
    {_get_packed_fingerprint}
    \cup {Take(_get_packed_fingerprint, k) : k \in 0..7}
    \cup {[_get_packed_fingerprint EXCEPT ![i] = (@ + 1) % 256] : i \in {1, 8}}
    \cup {<<215, 113, 37, 64, 20, 87, 19, 93>>}

\* What follows: a length field, whole or cut short.
LengthFields ==
    {pack_I(n) : n \in 0..(MaxPayloadLen + 2)}
    \cup {Take(pack_I(1), k) : k \in 0..3}

Buffers ==
    {head \o len \o payload :
        head \in Heads, len \in LengthFields,
        payload \in SeqsUpTo(PayloadBytes, MaxPayloadLen)}

\* A waypoints_buffer of n entries, told apart by their x.
StagedBuffer(n) == [i \in 1..n |-> transform_waypoint(Waypoint(i, 0, 0, 0, 0, 0))]

\* Buffers from empty to full, and the waypoints of a package to append.
BufferInputs ==
    {[buf |-> StagedBuffer(n), waypoints |-> ActionPackage(v, p).waypoints] :
        n \in {0, 1, waypoints_buffer_maxlen - 3, waypoints_buffer_maxlen - 2,
               waypoints_buffer_maxlen - 1, waypoints_buffer_maxlen},
        v \in VehicleIds, p \in Packages}

\* How many times in a row _get_packed_fingerprint is called.
MaxCalls == 3

FnInputs ==
    {[kind |-> "waypoint", arg |-> w] : w \in RemoteWaypoints}
    \cup {[kind |-> "buffer", arg |-> b] : b \in BufferInputs}
    \cup {[kind |-> "message", arg |-> m] : m \in ResetMessages}
    \cup {[kind |-> "bytes", arg |-> data] : data \in Buffers}
    \cup {[kind |-> "fingerprint", arg |-> n] : n \in 1..MaxCalls}

\* Everything but the result of the function and the fingerprint that the
\* codec keeps.
client_state ==
    <<veh_id, init_waypoint, init, should_publish, action_result_count,
      waypoints_buffer, msg_queue, world, destroy_calls, agent_waypoints,
      pcMain, mainEvt, tick_dealer, suspend_dealer, local_result_count,
      published, action_res_pack, frames, periods, results_at_last_period,
      should_publish_at_last_period, bound_end_enqueued, message_listener,
      response_dropped, exit_path, subscriptions, pump_starts, fn_input>>

FnInit ==
    /\ veh_id = None
    /\ init_waypoint = NoWaypoint
    /\ init = FALSE
    /\ should_publish = TRUE
    /\ action_result_count = 0
    /\ waypoints_buffer = <<>>
    /\ msg_queue = <<>>
    /\ world = FALSE
    /\ destroy_calls = 0
    /\ agent_waypoints = <<>>
    /\ pcMain = "request"
    /\ mainEvt = NoEvent
    /\ tick_dealer = "unstarted"
    /\ suspend_dealer = "alive"
    /\ local_result_count = 0
    /\ published = [connect_request |-> 0, action_result |-> 0,
                    suspend_simulation |-> 0, reset_simulation |-> 0]
    /\ action_res_pack = None
    /\ frames = 0
    /\ periods = 0
    /\ results_at_last_period = 0
    /\ should_publish_at_last_period = TRUE
    /\ bound_end_enqueued = FALSE
    /\ message_listener = "alive"
    /\ response_dropped = FALSE
    /\ exit_path = "none"
    /\ subscriptions = SubscribedTopics
    /\ pump_starts = 1
    /\ _packed_fingerprint = <<>>
    /\ fn_input \in FnInputs
    /\ fn_output = <<>>

\* self.transform_waypoint(fn_input)
ApplyTransformWaypoint ==
    /\ fn_input.kind = "waypoint"
    /\ fn_output = <<>>
    /\ fn_output' = <<transform_waypoint(fn_input.arg)>>
    /\ UNCHANGED <<client_state, _packed_fingerprint>>

\* self.transform_to_lcm_waypoint(self.transform_waypoint(fn_input))
ApplyTransformToLcmWaypoint ==
    /\ fn_input.kind = "waypoint"
    /\ Len(fn_output) = 1
    /\ fn_output' = Append(fn_output, transform_to_lcm_waypoint(fn_output[1]))
    /\ UNCHANGED <<client_state, _packed_fingerprint>>

\* The appends of action_package_dealer, on the buffer fn_input.buf.
ApplyAppendWaypoints ==
    /\ fn_input.kind = "buffer"
    /\ fn_output = <<>>
    /\ fn_output' = <<AppendWaypoints(fn_input.arg.buf,
                                      fn_input.arg.waypoints, 1)>>
    /\ UNCHANGED <<client_state, _packed_fingerprint>>

\* fn_input.encode()
ApplyEncode ==
    /\ fn_input.kind = "message"
    /\ fn_output = <<>>
    /\ fn_output' = <<encode(fn_input.arg)>>
    /\ _packed_fingerprint' = _get_packed_fingerprint
    /\ UNCHANGED client_state

\* reset_simulation.decode(fn_input.encode())
ApplyDecodeEncoded ==
    /\ fn_input.kind = "message"
    /\ Len(fn_output) = 1
    /\ fn_output' = Append(fn_output, decode(fn_output[1]))
    /\ _packed_fingerprint' = _get_packed_fingerprint
    /\ UNCHANGED client_state

\* reset_simulation.decode(fn_input)
ApplyDecode ==
    /\ fn_input.kind = "bytes"
    /\ fn_output = <<>>
    /\ fn_output' = <<decode(fn_input.arg)>>
    /\ _packed_fingerprint' = _get_packed_fingerprint
    /\ UNCHANGED client_state

\* reset_simulation._get_packed_fingerprint(), fn_input times in a row
ApplyGetPackedFingerprint ==
    /\ fn_input.kind = "fingerprint"
    /\ Len(fn_output) < fn_input.arg
    /\ fn_output' = Append(fn_output, _get_packed_fingerprint)
    /\ _packed_fingerprint' = _get_packed_fingerprint
    /\ UNCHANGED client_state

FnNext ==
    \/ ApplyTransformWaypoint
    \/ ApplyTransformToLcmWaypoint
    \/ ApplyAppendWaypoints
    \/ ApplyEncode
    \/ ApplyDecodeEncoded
    \/ ApplyDecode
    \/ ApplyGetPackedFingerprint

FnSpec == FnInit /\ [][FnNext]_vars

\* ================================================================== claims

\* The session has ended the claim's way: publishing is off, the world's
\* actors were destroyed and game_loop has returned.
Terminated == ~should_publish /\ destroy_calls > 0 /\ pcMain = "done"

\* The tick thread takes an event from the queue in this step.
TickDequeues == recv_info_process /\ msg_queue # <<>>

\* C1: one-shot bind.  Once the session is bound (init is true), no step
\* changes veh_id or init_waypoint: the id of the first connect response
\* stays, a later connect response is ignored.
C1_OneShotBind ==
    [][init => (veh_id' = veh_id /\ init_waypoint' = init_waypoint)]_vars

\* C2: termination is reached.  Whenever an end connection for the bound
\* vehicle has been enqueued while the session was bound, the session
\* eventually is terminated (publishing off, actors destroyed, game_loop
\* returned).  A run the user ends first with a quit event is not held
\* against the claim.
C2_TerminationReached ==
    bound_end_enqueued ~>
        (Terminated \/ (should_publish /\ pcMain \in {"finally", "done"}))

\* C3: after the end connection for the bound vehicle has been handled
\* (should_publish is false) no step publishes on any outbound topic.
C3_NoPublishAfterEnd ==
    [][~should_publish => published' = published]_vars

\* What the admission-control claim compares before and after.
SessionSnapshot ==
    <<waypoints_buffer, agent_waypoints, veh_id, init, should_publish>>

\* A step that handles an action package or an end connection whose
\* vehicle_id is not the session's veh_id, in the tick thread or the main loop.
HandlesForeignMessage ==
    \/ /\ TickDequeues
       /\ Head(msg_queue)[1] \in {action_package_keyword, end_connection_keyword}
       /\ Head(msg_queue)[2].vehicle_id # veh_id
    \/ /\ MainLoopDispatch
       /\ mainEvt[1] \in {action_package_keyword, end_connection_keyword}
       /\ mainEvt[2].vehicle_id # veh_id

\* C4: admission control.  Handling an action package or an end connection
\* for another vehicle leaves waypoints_buffer, the agent's pending waypoints,
\* veh_id, init and should_publish as they were.
C4_AdmissionControl ==
    [][HandlesForeignMessage => SessionSnapshot' = SessionSnapshot]_vars

\* C5: suspend on stagnation.  In a monitor period that finds the number of
\* ActionResults published so far (what the reply counter is to count)
\* nonzero and the same as at the period before, the monitor publishes
\* exactly one SuspendSimulation and no ResetSimulation.
C5_SuspendOnStagnation ==
    [][(/\ suspend_simulation_control_process
        /\ periods >= 1
        /\ published.action_result # 0
        /\ published.action_result = results_at_last_period)
       => published' = Publish(suspend_simulation_keyword)]_vars

\* C6: reset while nothing was counted.  In every monitor period with
\* action_result_count = 0 the monitor publishes exactly one ResetSimulation,
\* no SuspendSimulation, and is still running afterwards.
C6_ResetWhileZero ==
    [][(suspend_simulation_control_process /\ action_result_count = 0)
       => (/\ published' = Publish(reset_simulation_keyword)
           /\ suspend_dealer' = "alive")]_vars

\* C7: the reply counter counts publications: action_result_count is the
\* number of ActionResult messages published so far.
C7_CounterCountsPublications ==
    action_result_count = published.action_result

\* A step that takes an action package for the bound vehicle off the queue
\* (tick thread) or handles one it has taken (main loop).
TickHandlesBoundPackage ==
    /\ TickDequeues
    /\ Head(msg_queue)[1] = action_package_keyword
    /\ Head(msg_queue)[2].vehicle_id = veh_id

MainHandlesBoundPackage ==
    /\ MainLoopDispatch
    /\ mainEvt[1] = action_package_keyword
    /\ mainEvt[2].vehicle_id = veh_id

\* The package's waypoints in the local frame, in the package's order.
Transformed(msg) ==
    [i \in 1..message_waypoints |-> transform_waypoint(msg.waypoints[i])]

\* C8: buffer replace.  Every action package for the bound vehicle that is
\* handled replaces the agent's pending waypoints by the package's N
\* transformed waypoints in the package's order, and waypoints_buffer is
\* empty afterwards.
C8_BufferReplace ==
    [][/\ TickHandlesBoundPackage
          => /\ agent_waypoints' = Transformed(Head(msg_queue)[2])
             /\ waypoints_buffer' = <<>>
       /\ MainHandlesBoundPackage
          => /\ agent_waypoints' = Transformed(mainEvt[2])
             /\ waypoints_buffer' = <<>>]_vars

\* C9: single consumer.  Every event taken off msg_queue is taken by a task
\* that has a handler for its topic: the tick thread handles action packages
\* only, the main thread connect responses and end connections only; no
\* event is taken by the other task and lost.
C9_SingleConsumer ==
    [][/\ TickDequeues => Head(msg_queue)[1] = action_package_keyword
       /\ ((HandshakeWait \/ MainLoopGet) /\ msg_queue # <<>>)
          => Head(msg_queue)[1] \in {connect_response_keyword,
                                     end_connection_keyword}]_vars

\* C10: should_publish is permanent once cleared.  It starts true, a step
\* clears it only by handling an end connection whose vehicle_id is the bound
\* veh_id, and no step sets it again.
C10_ShouldPublishPermanent ==
    /\ should_publish = TRUE
    /\ [][/\ (should_publish /\ ~should_publish')
             => /\ pcMain = "dispatch"
                /\ mainEvt[1] = end_connection_keyword
                /\ init
                /\ mainEvt[2].vehicle_id = veh_id
          /\ ~should_publish => ~should_publish']_vars

\* should_publish was cleared and stayed so until game_loop had returned.
C10_Witness == ~should_publish /\ pcMain = "done"

\* C11: coordinate transform.  For every remote waypoint
\* (x, y, z, pitch, yaw, roll), transform_waypoint yields location (x, -y, z)
\* and rotation (pitch, yaw - 90, roll); yaw = 100 and y = 5 give yaw = 10
\* and y = -5.
C11_RemoteToLocal ==
    (fn_input.kind = "waypoint" /\ fn_output # <<>>) =>
        LET w == fn_input.arg
            t == fn_output[1]
        IN  /\ t.location = <<w.Location[1], 0 - w.Location[2], w.Location[3]>>
            /\ t.rotation = <<w.Rotation[1], w.Rotation[2] - 90, w.Rotation[3]>>
            /\ (w.Rotation[2] = 100 /\ w.Location[2] = 5)
                   => (t.rotation[2] = 10 /\ t.location[2] = -5)

C11_Witness ==
    /\ fn_input.kind = "waypoint"
    /\ fn_input.arg.Rotation[2] = 100
    /\ fn_input.arg.Location[2] = 5
    /\ fn_output # <<>>
    /\ fn_output[1].rotation[2] = 10
    /\ fn_output[1].location[2] = -5

\* C12: codec round trip.  For every reset_simulation message m whose
\* vehicle_id is a string, the empty string included, decode(encode(m))
\* returns a message with the vehicle_id of m.
C12_RoundTrip ==
    (fn_input.kind = "message" /\ Len(fn_output) = 2) =>
        fn_output[2] = Returned(fn_input.arg.vehicle_id)

C12_Witness ==
    /\ fn_input.kind = "message"
    /\ fn_input.arg.vehicle_id = <<>>
    /\ Len(fn_output) = 2
    /\ fn_output[1] = _get_packed_fingerprint \o <<0, 0, 0, 1, 0>>
    /\ fn_output[2].raised = "nothing"

\* C13: fingerprint rejection.  decode of a buffer whose first 8 bytes are
\* not the reset_simulation fingerprint 0xaee24a8028ae26bb (a buffer of fewer
\* than 8 bytes included) raises the decode error and returns no message.
C13_FingerprintRejection ==
    (/\ fn_input.kind = "bytes"
     /\ fn_output # <<>>
     /\ Take(fn_input.arg, 8) # <<174, 226, 74, 128, 40, 174, 38, 187>>)
    => fn_output[1].raised = "ValueError: Decode error"

C13_Witness ==
    /\ fn_input.kind = "bytes"
    /\ Len(fn_input.arg) = 7
    /\ fn_output # <<>>
    /\ fn_output[1].raised = "ValueError: Decode error"

\* The buffer starts with the fingerprint and a whole length field that
\* declares more bytes than follow it.
DeclaredLengthExceedsBuffer(data) ==
    /\ Take(data, 8) = _get_packed_fingerprint
    /\ Len(data) >= 12
    /\ unpack_I(SubSeq(data, 9, 12)) > Len(data) - 12

\* C14: truncation rejection.  decode of a buffer with the right fingerprint
\* whose declared string length exceeds the bytes left in the buffer raises
\* the decode error and returns no message.
C14_TruncationRejection ==
    (/\ fn_input.kind = "bytes"
     /\ fn_output # <<>>
     /\ DeclaredLengthExceedsBuffer(fn_input.arg))
    => fn_output[1].raised = "ValueError: Decode error"

\* C15: a decode failure does not stop dispatch.  When the listener thread
\* receives a frame that does not decode, nothing is enqueued for it and the
\* thread keeps running, so that later frames are still decoded and enqueued.
C15_DecodeFailureSurvived ==
    [][handler_decode_error
       => (msg_queue' = msg_queue /\ message_listener' = "alive")]_vars

C17_CleanupOnEveryExit ==
    (pcMain = "done" /\ world) => destroy_calls >= 1

C17_Witness ==
    /\ pcMain = "done"
    /\ world
    /\ exit_path = "exception"
    /\ destroy_calls = 1

\* The listener thread runs connect_response_handler in this step.
HandlesConnectResponse ==
    \E v \in VehicleIds : connect_response_handler(ConnectResponse(v))

\* This step puts a connect-response event on msg_queue.
EnqueuesConnectResponse ==
    /\ Len(msg_queue') = Len(msg_queue) + 1
    /\ msg_queue'[Len(msg_queue')][1] = connect_response_keyword

C19_FilterAtConsumption ==
    [][/\ \A v \in VehicleIds, p \in Packages :
              action_package_handler(ActionPackage(v, p))
              => msg_queue' = Append(msg_queue, <<action_package_keyword,
                                                  ActionPackage(v, p)>>)
       /\ \A v \in VehicleIds :
              end_connection_dealer(EndConnection(v))
              => msg_queue' = Append(msg_queue, <<end_connection_keyword,
                                                  EndConnection(v)>>)]_vars

\* C20: the monitor's update branch.  In a period that finds the number of
\* ActionResults published so far (what the reply counter is to count)
\* nonzero and different from the monitor's last sample local_result_count,
\* the monitor publishes nothing and sets local_result_count to that number,
\* also when local_result_count is still 0.
C20_UpdateBranch ==
    [][(/\ suspend_simulation_control_process
        /\ published.action_result # 0
        /\ published.action_result # local_result_count)
       => (/\ published' = published
           /\ local_result_count' = published.action_result)]_vars

\* C21: the session only moves forward, UNBOUND -> BOUND -> TERMINATED.
\* Once init is true it stays true and veh_id, once set, is never unset;
\* should_publish is cleared only in a bound session; once cleared it is
\* never set again.
C21_ForwardOnly ==
    [][/\ init => init'
       /\ veh_id # None => veh_id' # None
       /\ (should_publish /\ ~should_publish') => init
       /\ ~should_publish => ~should_publish']_vars

C21_Witness ==
    /\ init
    /\ veh_id # None
    /\ ~should_publish
    /\ exit_path = "end_connection"

\* C22: order within an iteration of the tick thread.  The step from sending
\* to receiving publishes exactly one ActionResult, whatever should_publish
\* is, and takes nothing off msg_queue; the tick thread dequeues only in the
\* receiving step that follows, at most one event, publishing nothing; with
\* the queue empty that step changes neither the queue, the buffer nor the
\* agent's waypoints.
C22_IterationOrder ==
    [][/\ (tick_dealer = "send" /\ tick_dealer' = "recv")
          => (/\ published' = Publish(action_result_keyword)
              /\ msg_queue' = msg_queue)
       /\ (tick_dealer # "recv" /\ tick_dealer' = "recv") => tick_dealer = "send"
       /\ (tick_process /\ msg_queue' # msg_queue) => tick_dealer = "recv"
       /\ (tick_dealer = "recv" /\ tick_dealer' # "recv")
          => (/\ published' = published
              /\ IF msg_queue = <<>>
                   THEN UNCHANGED <<msg_queue, waypoints_buffer,
                                    agent_waypoints>>
                   ELSE msg_queue' = Tail(msg_queue))
      ]_vars

C22_Witness ==
    /\ tick_dealer = "recv"
    /\ ~should_publish
    /\ published.action_result = 2
    /\ msg_queue # <<>>

\* C23: the handshake wait.  Between the publication of the ConnectRequest
\* and the dequeue of a connect response game_loop creates no world and
\* starts no tick thread; the wait ends only in the step that takes a connect
\* response off msg_queue; an event of another topic taken during the wait is
\* dropped and leaves veh_id, init_waypoint, init and should_publish alone.
C23_HandshakeWait ==
    [][pcMain = "handshake"
       => /\ ~world /\ tick_dealer = "unstarted"
          /\ pcMain' # "handshake"
             => (/\ msg_queue # <<>>
                 /\ Head(msg_queue)[1] = connect_response_keyword
                 /\ msg_queue' = Tail(msg_queue)
                 /\ pcMain' = "setup"
                 /\ init')
          /\ (HandshakeWait /\ Head(msg_queue)[1] # connect_response_keyword)
             => (/\ pcMain' = "handshake"
                 /\ UNCHANGED <<veh_id, init_waypoint, init, should_publish,
                                world, tick_dealer>>)]_vars

C23_Witness ==
    /\ pcMain = "handshake"
    /\ frames = MaxFrames
    /\ msg_queue = <<>>
    /\ ~init
    /\ bound_end_enqueued = FALSE

\* The last n entries of seq, all of them if it has fewer.
LastEntries(seq, n) ==
    SubSeq(seq, IF Len(seq) > n THEN Len(seq) - n + 1 ELSE 1, Len(seq))

\* C24: the buffer's capacity is enforced.  waypoints_buffer never holds
\* more than 600 waypoints, and appending a package's waypoints to a buffer
\* leaves the last 600 of the old entries followed by the new ones: an
\* append to a full buffer evicts the oldest entry.
C24_CapacityEnforced ==
    /\ Len(waypoints_buffer) <= 600
    /\ (fn_input.kind = "buffer" /\ fn_output # <<>>) =>
           LET new == [i \in 1..message_waypoints |->
                          transform_waypoint(fn_input.arg.waypoints[i])]
           IN  /\ Len(fn_output[1]) <= 600
               /\ fn_output[1] = LastEntries(fn_input.arg.buf \o new, 600)

C24_Witness ==
    /\ fn_input.kind = "buffer"
    /\ Len(fn_input.arg.buf) = 600
    /\ fn_output # <<>>
    /\ Len(fn_output[1]) = 600
    /\ fn_output[1][1] = fn_input.arg.buf[message_waypoints + 1]

\* C25: wire format.  encode of a reset_simulation whose vehicle_id takes L
\* bytes in UTF-8 yields 8 + 4 + L + 1 bytes: the fingerprint
\* 0xaee24a8028ae26bb, L + 1 as four bytes most significant first, the L
\* bytes of the string, one NUL byte.
C25_WireFormat ==
    (fn_input.kind = "message" /\ fn_output # <<>>) =>
        LET out == fn_output[1]
            str == utf8_encode(fn_input.arg.vehicle_id)
            L == Len(str)
        IN  /\ Len(out) = 8 + 4 + L + 1
            /\ SubSeq(out, 1, 8) = <<174, 226, 74, 128, 40, 174, 38, 187>>
            /\ SubSeq(out, 9, 12) = <<0, 0, 0, L + 1>>
            /\ SubSeq(out, 13, 12 + L) = str
            /\ out[13 + L] = 0

C25_Witness ==
    /\ fn_input.kind = "message"
    /\ fn_input.arg.vehicle_id = <<233, 65>>
    /\ fn_output # <<>>
    /\ fn_output[1] = <<174, 226, 74, 128, 40, 174, 38, 187,
                        0, 0, 0, 4, 195, 169, 65, 0>>

\* C26: the inverse transform is asymmetric.  transform_to_lcm_waypoint maps
\* a local pose (x, y, z, pitch, yaw, roll) to (x, -y, z, pitch, yaw, roll);
\* a remote waypoint taken to local and back keeps its location, pitch and
\* roll, and its yaw is lower by 90.
C26_AsymmetricInverse ==
    (fn_input.kind = "waypoint" /\ Len(fn_output) = 2) =>
        LET w == fn_input.arg
            t == fn_output[1]
            back == fn_output[2]
        IN  /\ back.Location = <<t.location[1], 0 - t.location[2], t.location[3]>>
            /\ back.Rotation = <<t.rotation[1], t.rotation[2], t.rotation[3]>>
            /\ back.Location = w.Location
            /\ back.Rotation = <<w.Rotation[1], w.Rotation[2] - 90, w.Rotation[3]>>

C26_Witness ==
    /\ fn_input.kind = "waypoint"
    /\ fn_input.arg = Waypoint(1, 5, 2, 3, 100, 7)
    /\ Len(fn_output) = 2
    /\ fn_output[2] = Waypoint(1, 5, 2, 3, 10, 7)

\* C27: single writer.  veh_id, action_result_count and should_publish are
\* written by the main thread (game_loop) only: no step of the listener
\* thread, the tick thread or the monitor thread changes any of them.
C27_SingleWriter ==
    [][(message_listen_process \/ tick_process
            \/ suspend_simulation_control_process)
       => UNCHANGED <<veh_id, action_result_count, should_publish>>]_vars

C27_Witness ==
    /\ veh_id # None
    /\ ~should_publish
    /\ frames >= 2
    /\ periods >= 1
    /\ published.action_result >= 1

\* msg_queue after the step is msg_queue, or msg_queue with one more event.
AppendsAtMostOne ==
    \/ msg_queue' = msg_queue
    \/ /\ Len(msg_queue') = Len(msg_queue) + 1
       /\ SubSeq(msg_queue', 1, Len(msg_queue)) = msg_queue

\* C28: frame of the listener thread.  A step of any of the three handlers
\* appends at most one event to msg_queue and leaves veh_id, init,
\* init_waypoint, should_publish, action_result_count and waypoints_buffer
\* unchanged.
C28_DispatchFrame ==
    [][message_listen_process
       => (/\ AppendsAtMostOne
           /\ UNCHANGED <<veh_id, init, init_waypoint, should_publish,
                          action_result_count, waypoints_buffer>>)]_vars

C28_Witness ==
    /\ Len(msg_queue) = 3
    /\ msg_queue[1][1] = connect_response_keyword
    /\ msg_queue[2][1] = end_connection_keyword
    /\ msg_queue[3][1] = end_connection_keyword
    /\ frames = MaxFrames

\* C29: frame of the monitor thread.  A monitor period changes only
\* local_result_count and what has been published; veh_id, init,
\* init_waypoint, should_publish, action_result_count, msg_queue and
\* waypoints_buffer are unchanged.
C29_LivenessFrame ==
    [][suspend_simulation_control_process
       => UNCHANGED <<veh_id, init, init_waypoint, should_publish,
                      action_result_count, msg_queue, waypoints_buffer>>]_vars

C29_Witness ==
    /\ periods = MaxPeriods
    /\ published.reset_simulation = 2
    /\ msg_queue # <<>>
    /\ init

\* C30: subscription set-up.  Subscriptions are registered only while no
\* thread runs lc.handle(); the one such thread is started once, when exactly
\* the three topics connect_response, action_package and end_connection are
\* subscribed; no handler registers a subscription.
C30_SubscriptionSetup ==
    [][/\ subscriptions' # subscriptions
          => (pump_starts = 0 /\ message_listener = "unstarted")
       /\ pump_starts' # pump_starts
          => (/\ pump_starts = 0
              /\ pump_starts' = 1
              /\ Len(subscriptions) = 3
              /\ {subscriptions[i] : i \in 1..3}
                     = {connect_response_keyword, action_package_keyword,
                        end_connection_keyword})
       /\ message_listen_process => UNCHANGED <<subscriptions, pump_starts>>
      ]_vars

C30_Witness ==
    /\ pump_starts = 1
    /\ Len(subscriptions) = 3
    /\ message_listener = "alive"
    /\ frames = MaxFrames
    /\ msg_queue # <<>>

\* The monitor period builds a message and hands it to encode: a
\* ResetSimulation in the reset branch, a SuspendSimulation in the suspend
\* branch once current_pos was read and should_publish found set.
MonitorEncodes ==
    /\ suspend_simulation_control_process
    /\ \/ local_result_count = 0
       \/ /\ local_result_count = action_result_count
          /\ world /\ WorldHasVehicle
          /\ should_publish = TRUE

\* C31: the monitor never encodes or publishes with an unset identity.  In
\* every period in which it builds a ResetSimulation or a SuspendSimulation,
\* the vehicle_id it puts in (self.veh_id) is the bound id, not None, also
\* in periods that elapse before the session is bound.
C31_MonitorIdentityBound ==
    [][MonitorEncodes => veh_id # None]_vars

C33_TickSurvivesEvents ==
    [][(recv_info_process /\ msg_queue # <<>>) => tick_dealer' = "send"]_vars

C35_DestroyAtMostOnce ==
    destroy_calls <= 1

\* The 64 bits of eight bytes, most significant first, and back.
BitsOf(h) == [i \in 1..64 |-> (h[((i - 1) \div 8) + 1] \div (2 ^ (7 - ((i - 1) % 8)))) % 2]
BytesOf(bits) ==
    [k \in 1..8 |-> (128 * bits[(8 * k) - 7]) + (64 * bits[(8 * k) - 6])
                    + (32 * bits[(8 * k) - 5]) + (16 * bits[(8 * k) - 4])
                    + (8 * bits[(8 * k) - 3]) + (4 * bits[(8 * k) - 2])
                    + (2 * bits[(8 * k) - 1]) + bits[8 * k]]

\* The 64-bit rotation to the left by one bit: bit i of the result is bit
\* i + 1 of h, the last one is the first of h.
RotateLeft64(h) == BytesOf([i \in 1..64 |-> BitsOf(h)[(i % 64) + 1]])

\* C36: the fingerprint of reset_simulation is 0xd77125401457135d rotated
\* left by one bit within 64 bits, which is 0xaee24a8028ae26bb, packed as
\* eight bytes, most significant first; every call of
\* _get_packed_fingerprint returns these eight bytes, the first call and the
\* calls that find the value kept by an earlier one alike.
C36_Fingerprint ==
    /\ _get_hash_recursive = RotateLeft64(<<215, 113, 37, 64, 20, 87, 19, 93>>)
    /\ _get_hash_recursive = <<174, 226, 74, 128, 40, 174, 38, 187>>
    /\ _get_packed_fingerprint = <<174, 226, 74, 128, 40, 174, 38, 187>>
    /\ fn_input.kind = "fingerprint"
       => \A i \in 1..Len(fn_output) :
              fn_output[i] = <<174, 226, 74, 128, 40, 174, 38, 187>>

C36_Witness ==
    /\ fn_input.kind = "fingerprint"
    /\ Len(fn_output) = MaxCalls
    /\ fn_output[1] = <<174, 226, 74, 128, 40, 174, 38, 187>>
    /\ fn_output[MaxCalls] = fn_output[1]
    /\ _packed_fingerprint = fn_output[1]

====
